---- MODULE Spec2Model ----
(***************************************************************************)
(* A model of flask_profiler.py: the composition root (FlaskProfiler),     *)
(* the call-statistics formatter, the two profiler adapters, the two       *)
(* buffering log handlers and their response injectors, driven by the      *)
(* request pipeline of the host framework (Flask).                         *)
(***************************************************************************)
EXTENDS Integers, Sequences, FiniteSets, TLC

VARIABLES
    config,      \* app.config: the four PROFILE_* options
    fp,          \* the FlaskProfiler object: app, loggers, profilers, log_handlers
    app,         \* the application's registered before/after request functions
    logger,      \* logger name -> sequence of handlers attached to it
    buffer,      \* handler name -> BufferingHandler.buffer (sequence of records)
    req,         \* request slot -> the request context being processed in it
    nextRid,     \* number of requests begun so far
    overlapped,  \* history: some two requests were in flight at the same time
    last,        \* history: the most recent after-request call of an injector
    stats,       \* input of get_func_calls_from_stats (formatter runs)
    func_calls,  \* its output
    dropped,     \* history: the messages an injector flushed and did not deliver
    lock,        \* handler name -> the thread holding Handler.lock, or None
    thr,         \* thread -> its position in Handler.handle or in flush
    hist,        \* history of the direct emit and flush calls on the handlers
    wire         \* history of the registration calls made after construction

vars == <<config, fp, app, logger, buffer, req, nextRid, overlapped, last, stats, func_calls,
          dropped, lock, thr, hist, wire>>

(***************************************************************************)
(* Bounds                                                                  *)
(***************************************************************************)
\* requests begun in one run
MaxReq == 2
\* functions in the profile of one request
MaxCalls == 1
\* largest time (seconds) in a call record
MaxTime == 2
\* ORM queries issued by one request
MaxQueries == 1
\* call records handed to one formatter run
MaxStats == 1
\* largest call count in a call record
MaxCount == 2
\* records handed directly to the handlers in one run
MaxEmits == 2
\* direct flush() calls in one run
MaxFlushes == 2

None == ""

(***************************************************************************)
(* Sequence helpers                                                        *)
(***************************************************************************)
RECURSIVE Flatten(_)
Flatten(ss) == IF ss = <<>> THEN <<>> ELSE Head(ss) \o Flatten(Tail(ss))

RECURSIVE SumSeq(_)
SumSeq(s) == IF s = <<>> THEN 0 ELSE Head(s) + SumSeq(Tail(s))

Reversed(s) == [i \in 1..Len(s) |-> s[Len(s) + 1 - i]]

RECURSIVE GCD(_, _)
GCD(a, b) == IF b = 0 THEN a ELSE GCD(b, a % b)

(***************************************************************************)
(* Call-statistics formatter                                               *)
(* A pstats entry is info = (cc, nc, tt, ct): info[0] = cc is the          *)
(* primitive-call count, info[1] = nc the total-call count, info[2] the    *)
(* exclusive and info[3] the cumulative time in seconds.  Python indexes   *)
(* from 0, TLA+ from 1.                                                    *)
(***************************************************************************)
Info(info, i) == info[i + 1]

\* The quotient of two numbers as an exact reduced fraction; Python raises
\* ZeroDivisionError for a zero divisor.
ZeroDivisionError == [num |-> 0, den |-> 0]
Zero == [num |-> 0, den |-> 1]
Div(n, d) ==
    IF d = 0 THEN ZeroDivisionError
    ELSE LET g == GCD(n, d) IN [num |-> n \div g, den |-> d \div g]

\* "%d/%d" % (a, b) and a bare integer n
FormatSlash(a, b) == [kind |-> "str", left |-> a, right |-> b]
BareInt(n) == [kind |-> "int", left |-> n, right |-> 0]

\* variant: the primitive-call count printed first
ncalls_primitive_first(info) ==
    IF Info(info, 0) # Info(info, 1)
    THEN FormatSlash(Info(info, 0), Info(info, 1))
    ELSE BareInt(Info(info, 1))

ncalls_of(info) ==
    IF Info(info, 0) # Info(info, 1)
    THEN FormatSlash(Info(info, 1), Info(info, 0))
    ELSE BareInt(Info(info, 1))

\* variant: the exclusive time divided by the primitive-call count
percall_by_primitive(info) ==
    IF Info(info, 0) # 0
    THEN Div(Info(info, 2) * 1000, Info(info, 0))
    ELSE Zero

percall_of(info) ==
    IF Info(info, 1) # 0
    THEN Div(Info(info, 2) * 1000, Info(info, 1))
    ELSE Zero

percall_cum_of(info) ==
    IF Info(info, 0) # 0
    THEN Div(Info(info, 3) * 1000, Info(info, 0))
    ELSE Zero

stat_of(info) ==
    [ncalls      |-> ncalls_of(info),
     tottime     |-> Info(info, 2) * 1000,
     percall     |-> percall_of(info),
     cumtime     |-> Info(info, 3) * 1000,
     percall_cum |-> percall_cum_of(info)]

\* stats is the sequence of entries in the order of stats.sort_stats(1).fcn_list
get_func_calls_from_stats(st) == [i \in 1..Len(st) |-> stat_of(st[i])]

(***************************************************************************)
(* Profiler adapters and log handlers as the dicts their factories return  *)
(***************************************************************************)
FunctionLogger == "flask.profiler.function"
SqlalchemyLogger == "flask.profiler.sqlalchemy_queries"
LoggerNames == {FunctionLogger, SqlalchemyLogger}
HandlerNames == {"html", "json"}

profile_function ==
    [logger         |-> FunctionLogger,
     before_request |-> "enable_function_profiler",
     after_request  |-> "disable_function_profiler"]

profile_sqlalchemy ==
    [logger         |-> SqlalchemyLogger,
     before_request |-> None,
     after_request  |-> "profile_sqlalchemy_queries"]

jsonify_log_handler ==
    [handler        |-> "json",
     before_request |-> None,
     after_request  |-> "merge_into_jsonified_output"]

html_body_log_handler ==
    [handler        |-> "html",
     before_request |-> None,
     after_request  |-> "render_logs_to_html_body"]

AdapterHooks == {"disable_function_profiler", "profile_sqlalchemy_queries"}
InjectorHooks == {"render_logs_to_html_body", "merge_into_jsonified_output"}

\* the logger an adapter's after-request hook logs to, the handler an
\* injector's after-request hook flushes
LoggerOfHook(h) ==
    IF h = "disable_function_profiler" THEN FunctionLogger ELSE SqlalchemyLogger
HandlerOfHook(h) ==
    IF h = "render_logs_to_html_body" THEN "html" ELSE "json"

(***************************************************************************)
(* Composition root.  W = [fp, app, logger, raised] is the part of the     *)
(* program state the registration methods read and write; raised records   *)
(* that a call failed (attribute access on self.app = None).               *)
(***************************************************************************)
\* logger.addHandler: a handler is added to a logger at most once
addHandler(hs, h) ==
    IF \E i \in 1..Len(hs) : hs[i] = h THEN hs ELSE Append(hs, h)

\* app.before_request(f) / app.after_request(f): append to the list
RegisterIf(fs, f) == IF f # None THEN Append(fs, f) ELSE fs

add_profiler(W, profiler) ==
    IF W.raised THEN W
    ELSE
      LET W1 == [W EXCEPT !.fp.profilers = Append(@, profiler)]
      IN IF W.fp.app = None
            /\ (profiler.before_request # None \/ profiler.after_request # None)
         THEN [W1 EXCEPT !.raised = TRUE]
         ELSE [W1 EXCEPT
                 !.app.before_request_funcs = RegisterIf(@, profiler.before_request),
                 !.app.after_request_funcs  = RegisterIf(@, profiler.after_request),
                 !.fp.loggers = IF profiler.logger # None
                                THEN Append(@, profiler.logger) ELSE @]

\* the body of "for logger in self.loggers"
RECURSIVE add_log_handler_loop(_, _, _)
add_log_handler_loop(W, handler, loggers) ==
    IF loggers = <<>> \/ W.raised THEN W
    ELSE
      LET l  == Head(loggers)
          W1 == [W EXCEPT !.logger[l] = addHandler(@, handler.handler)]
          W2 == IF W.fp.app = None
                     /\ (handler.before_request # None \/ handler.after_request # None)
                THEN [W1 EXCEPT !.raised = TRUE]
                ELSE [W1 EXCEPT
                        !.app.before_request_funcs = RegisterIf(@, handler.before_request),
                        !.app.after_request_funcs  = RegisterIf(@, handler.after_request)]
      IN add_log_handler_loop(W2, handler, Tail(loggers))

add_log_handler(W, handler) ==
    IF W.raised THEN W
    ELSE add_log_handler_loop([W EXCEPT !.fp.log_handlers = Append(@, handler)],
                              handler, W.fp.loggers)

init_app(W, cfg) ==
    LET W1 == IF cfg.PROFILE_FUNCTION THEN add_profiler(W, profile_function) ELSE W
        W2 == IF cfg.PROFILE_SQLALCHEMY THEN add_profiler(W1, profile_sqlalchemy) ELSE W1
        W3 == IF cfg.PROFILE_HTML_PLACEHOLDER # None
              THEN add_log_handler(W2, html_body_log_handler) ELSE W2
        W4 == IF cfg.PROFILE_JSONIFY_KEY # None
              THEN add_log_handler(W3, jsonify_log_handler) ELSE W3
    IN W4

\* FlaskProfiler(app): the constructor stores app, empties the lists and
\* calls init_app when an app is given
FlaskProfiler(a, cfg) ==
    LET W0 == [fp     |-> [app |-> a, loggers |-> <<>>, profilers |-> <<>>,
                           log_handlers |-> <<>>],
               app    |-> [before_request_funcs |-> <<>>, after_request_funcs |-> <<>>],
               logger |-> [l \in LoggerNames |-> <<>>],
               raised |-> FALSE]
    IN IF a # None THEN init_app(W0, cfg) ELSE W0

\* the configurations: each flag off (the setdefault value) or on
Placeholder == "placeholder"
JsonifyKey == "logs"
Configs ==
    [PROFILE_FUNCTION : BOOLEAN, PROFILE_SQLALCHEMY : BOOLEAN,
     PROFILE_HTML_PLACEHOLDER : {None, Placeholder},
     PROFILE_JSONIFY_KEY : {None, JsonifyKey}]

(***************************************************************************)
(* Response bodies.                                                        *)
(* A body is [kind, toks, doc, fmt].  kind "raw": the bytes toks, a        *)
(* sequence of units [t, c, lines]: a single byte (t = "byte"), the bytes  *)
(* of the comment "<!-- c -->" (t = "comment"), of the tags written by     *)
(* HTMLBodyLogHandler.flush (t = "div", "p", "/p", "/div"), or of the text *)
(* of a log message (t = "text", lines = the message).  kind "json": the   *)
(* serialisation, in the layout fmt, of the JSON document doc.  A decoded  *)
(* string is a sequence of units too, with characters (t = "char") in      *)
(* place of bytes.                                                         *)
(***************************************************************************)
U(t, c, lines) == [t |-> t, c |-> c, lines |-> lines]
Byte(c) == U("byte", c, <<>>)
Char(c) == U("char", c, <<>>)
Comment(name) == U("comment", name, <<>>)
Text(msg) == U("text", None, <<msg>>)
DivOpen == U("div", None, <<>>)
DivClose == U("/div", None, <<>>)
POpen == U("p", None, <<>>)
PClose == U("/p", None, <<>>)

\* bytes.decode("utf-8"): 0xC3 0xA9 is one character, an ASCII byte is itself
RECURSIVE Decode(_)
Decode(bs) ==
    IF bs = <<>> THEN <<>>
    ELSE IF Head(bs).t = "byte" /\ Head(bs).c = "c3"
              /\ Len(bs) >= 2 /\ bs[2].t = "byte" /\ bs[2].c = "a9"
         THEN <<Char("e-acute")>> \o Decode(Tail(Tail(bs)))
         ELSE IF Head(bs).t = "byte"
              THEN <<Char(Head(bs).c)>> \o Decode(Tail(bs))
              ELSE <<Head(bs)>> \o Decode(Tail(bs))

\* str.encode("utf-8")
EncodeUnit(u) ==
    IF u.t = "char"
    THEN IF u.c = "e-acute" THEN <<Byte("c3"), Byte("a9")>> ELSE <<Byte(u.c)>>
    ELSE <<u>>
Encode(str) == Flatten([i \in 1..Len(str) |-> EncodeUnit(str[i])])

\* a formatted log line (logging's default format): the text of the
\* message, which holds the placeholder comment when an argument of the
\* logging call (a query statement) does
Format(record) ==
    <<Text(record.msg)>> \o (IF record.msg.ph THEN <<Comment(Placeholder)>> ELSE <<>>)

\* len() of the text of a message, of a unit, of a string or byte string
LineLen(line) == 20 + line.idx
DivOpenLen == 139
UnitLen(u) ==
    IF u.t = "comment" THEN 9 + Len(u.c)
    ELSE IF u.t = "div" THEN DivOpenLen
    ELSE IF u.t = "/div" THEN 6
    ELSE IF u.t = "p" THEN 3
    ELSE IF u.t = "/p" THEN 5
    ELSE IF u.t = "text" THEN LineLen(u.lines[1])
    ELSE 1
StrLen(str) == SumSeq([i \in 1..Len(str) |-> UnitLen(str[i])])

\* JSON documents: a mapping (keys, val) or a list; every value is a list of
\* strings
AllKeys == {"result", JsonifyKey}
NoVals == [k \in AllKeys |-> <<>>]
Dict(keys, val) == [kind |-> "dict", keys |-> keys, val |-> val]
List == [kind |-> "list", keys |-> {}, val |-> NoVals]
NoDoc == [kind |-> "none", keys |-> {}, val |-> NoVals]

RawBody(toks) == [kind |-> "raw", toks |-> toks, doc |-> NoDoc, fmt |-> None]
JsonBody(doc, fmt) == [kind |-> "json", toks |-> <<>>, doc |-> doc, fmt |-> fmt]

RECURSIVE SumOver(_, _, _)
SumOver(S, doc, fmt) ==
    IF S = {} THEN 0
    ELSE LET k == CHOOSE x \in S : TRUE
         IN Len(k) + 6 + SumSeq([i \in 1..Len(doc.val[k]) |-> 4 + StrLen(doc.val[k][i])])
            + (IF fmt = "compact" THEN 0 ELSE 4)
            + SumOver(S \ {k}, doc, fmt)

\* number of bytes of the serialisation of doc in layout fmt
JsonLen(doc, fmt) ==
    2 + SumOver(doc.keys, doc, fmt) + (IF fmt = "compact" THEN 0 ELSE 1)

\* len(resp.data)
ByteLen(body) ==
    IF body.kind = "json" THEN JsonLen(body.doc, body.fmt) ELSE StrLen(body.toks)

\* json.loads(resp.data): the document, or ValueError for bytes that are not JSON
ValueError == [kind |-> "ValueError", keys |-> {}, val |-> NoVals]
json_loads(body) == IF body.kind = "json" THEN body.doc ELSE ValueError

\* jsonify(data).response: the chunks of the serialisation in Flask's layout
jsonify(data) == <<JsonBody(data, "jsonify")>>

(***************************************************************************)
(* The buffering log handlers                                              *)
(***************************************************************************)
\* variant: every record fills the buffer
shouldFlush_always(record) == TRUE

\* shouldFlush of both handler classes
shouldFlush(record) == FALSE

\* variant: flush returns the records without clearing the buffer
JSONifyLogHandler_flush_keep(buf) ==
    [result |-> [i \in 1..Len(buf) |-> Format(buf[i])], buffer |-> buf]

\* JSONifyLogHandler.flush: the formatted records, and the emptied buffer
JSONifyLogHandler_flush(buf) ==
    [result |-> [i \in 1..Len(buf) |-> Format(buf[i])], buffer |-> <<>>]

\* variant: the buffer is not emptied
HTMLBodyLogHandler_flush_keep(buf) ==
    [result |-> <<DivOpen>>
                \o Flatten([i \in 1..Len(buf) |-> <<POpen>> \o Format(buf[i]) \o <<PClose>>])
                \o <<DivClose>>,
     buffer |-> buf]

\* HTMLBodyLogHandler.flush: the rendered block, and the emptied buffer
HTMLBodyLogHandler_flush(buf) ==
    [result |-> <<DivOpen>>
                \o Flatten([i \in 1..Len(buf) |-> <<POpen>> \o Format(buf[i]) \o <<PClose>>])
                \o <<DivClose>>,
     buffer |-> <<>>]

\* BufferingHandler.emit with the overridden shouldFlush and flush
emit(buf, record) ==
    IF shouldFlush(record) THEN <<>> ELSE Append(buf, record)

(***************************************************************************)
(* The injectors.  Each takes the response and the handler's buffer and    *)
(* gives the response returned, the buffer left, and whether it raised.    *)
(***************************************************************************)
\* str.startswith; a content type is the sequence of its parts, the media
\* type first
StartsWith(content_type, prefix) ==
    Len(content_type) >= Len(prefix) /\ SubSeq(content_type, 1, Len(prefix)) = prefix

\* variant: only the first occurrence of old is replaced
ReplaceFirst(str, old, new) ==
    Flatten([i \in 1..Len(str) |->
        IF str[i] = old /\ (\A j \in 1..(i - 1) : str[j] # old) THEN new ELSE <<str[i]>>])

\* str.replace(old, new): every occurrence of the unit old is replaced by
\* the string new
Replace(str, old, new) ==
    Flatten([i \in 1..Len(str) |-> IF str[i] = old THEN new ELSE <<str[i]>>])

\* the condition under which an injector rewrites the response
html_target(resp) ==
    resp.status_code = 200 /\ StartsWith(resp.content_type, <<"text/html">>)
\* variant: the status code is not looked at
json_target_any_status(resp) ==
    StartsWith(resp.content_type, <<"application/json">>)

json_target(resp) ==
    resp.status_code = 200 /\ StartsWith(resp.content_type, <<"application/json">>)

\* variant: the number of chunks instead of the number of bytes
len_of_response(response) == Len(response)

\* sum(map(len, resp.response))
sum_of_lens(response) == SumSeq([i \in 1..Len(response) |-> ByteLen(response[i])])

render_logs_to_html_body(resp, buf, placeholder) ==
    IF html_target(resp)
    THEN LET html   == Decode(resp.data.toks)
             report == HTMLBodyLogHandler_flush(buf)
             html2  == Replace(html, Comment(placeholder), report.result)
             html3  == Encode(html2)
         IN [resp   |-> [resp EXCEPT !.data = RawBody(html3),
                                     !.content_length = StrLen(html3)],
             buffer |-> report.buffer, raised |-> FALSE]
    ELSE [resp |-> resp, buffer |-> buf, raised |-> FALSE]

merge_into_jsonified_output(resp, buf, jsonify_key) ==
    IF json_target(resp)
    THEN LET data == json_loads(resp.data)
         IN IF data = ValueError
            THEN [resp |-> resp, buffer |-> buf, raised |-> TRUE]
            ELSE IF data.kind = "dict" /\ jsonify_key # None /\ jsonify_key \notin data.keys
                 THEN LET flushed  == JSONifyLogHandler_flush(buf)
                          data2    == Dict(data.keys \cup {jsonify_key},
                                           [data.val EXCEPT ![jsonify_key] = flushed.result])
                          response == jsonify(data2)
                      IN [resp   |-> [resp EXCEPT
                                        !.data = response[1],
                                        !.content_length = sum_of_lens(response)],
                          buffer |-> flushed.buffer, raised |-> FALSE]
                 ELSE LET response == jsonify(data)
                      IN [resp   |-> [resp EXCEPT
                                        !.data = response[1],
                                        !.content_length = sum_of_lens(response)],
                          buffer |-> buf, raised |-> FALSE]
    ELSE [resp |-> resp, buffer |-> buf, raised |-> FALSE]

(***************************************************************************)
(* Logging                                                                 *)
(***************************************************************************)
\* the LogRecord of the idx-th logger.info call of hook src in request rid;
\* ph: an argument of the call holds the placeholder comment
Record(name, rid, src, idx, ph) ==
    [name |-> name, levelname |-> "INFO",
     msg |-> [rid |-> rid, src |-> src, idx |-> idx, ph |-> ph]]

\* logger.info(...): the record is emitted on every handler of the logger
logger_info(bufs, handlers, record) ==
    [h \in HandlerNames |->
        IF \E i \in 1..Len(handlers) : handlers[i] = h
        THEN emit(bufs[h], record) ELSE bufs[h]]

(***************************************************************************)
(* The responses a view returns                                            *)
(***************************************************************************)
HtmlCT == <<"text/html", "; charset=utf-8">>
JsonCT == <<"application/json">>
PlainCT == <<"text/plain">>

OnePlaceholder == Encode(<<Char("a"), Comment(Placeholder)>>)
TwoPlaceholders ==
    Encode(<<Comment(Placeholder), Char("e-acute"), Comment(Placeholder)>>)
NoPlaceholder == Encode(<<Char("e-acute"), Comment("other")>>)

UserLine == <<Text([rid |-> 0, src |-> "view", idx |-> 0, ph |-> FALSE])>>
ResultDoc == Dict({"result"}, [NoVals EXCEPT !["result"] = <<UserLine>>])
KeyTakenDoc == Dict({JsonifyKey}, NoVals)
BothDoc == Dict(AllKeys, [k \in AllKeys |-> <<UserLine>>])

\* Content-Length absent
NoLength == -1

Response(status, ctype, body) ==
    [status_code |-> status, content_type |-> ctype, data |-> body,
     content_length |-> ByteLen(body)]

Responses ==
    { Response(200, HtmlCT, RawBody(OnePlaceholder)),
      Response(200, HtmlCT, RawBody(TwoPlaceholders)),
      Response(200, HtmlCT, RawBody(NoPlaceholder)),
      Response(404, HtmlCT, RawBody(OnePlaceholder)),
      [Response(200, PlainCT, RawBody(OnePlaceholder)) EXCEPT !.content_length = NoLength],
      Response(200, JsonCT, JsonBody(ResultDoc, "pretty")),
      Response(200, JsonCT, JsonBody(KeyTakenDoc, "compact")),
      Response(200, JsonCT, JsonBody(BothDoc, "pretty")),
      Response(200, JsonCT, JsonBody(List, "compact")),
      Response(404, JsonCT, JsonBody(ResultDoc, "compact")),
      Response(200, JsonCT, RawBody(NoPlaceholder)) }

\* the responses of the views hit by concurrent requests
ConcResponses ==
    { Response(200, HtmlCT, RawBody(OnePlaceholder)),
      Response(200, JsonCT, JsonBody(ResultDoc, "pretty")),
      Response(404, HtmlCT, RawBody(OnePlaceholder)) }

NoResponse == [status_code |-> 0, content_type |-> <<>>, data |-> RawBody(<<>>),
               content_length |-> NoLength]

\* the profiles a request can produce: up to MaxCalls entries (cc, nc, tt, ct)
RequestProfiles ==
    {[i \in 1..n |-> <<1, 1 + i, 1, 2>>] : n \in 0..MaxCalls}

(***************************************************************************)
(* State of the request pipeline                                           *)
(***************************************************************************)
Slots == {"A", "B"}

Idle == [pc |-> "idle", rid |-> 0, i |-> 1, k |-> 0, resp |-> NoResponse,
         g |-> None, profile |-> <<>>, queries |-> 0, tainted |-> FALSE,
         emitted |-> <<>>]

NoCall == [hook |-> None, rid |-> 0, before |-> NoResponse, after |-> NoResponse,
           buf_before |-> <<>>, buf_after |-> <<>>, raised |-> FALSE, twice |-> FALSE]

InFlight(r) == r.pc \in {"before", "after"}

\* the threads that call the handlers directly, a thread outside any call
Threads == {"t1", "t2"}
NoRecord == [name |-> None, levelname |-> None,
             msg |-> [rid |-> 0, src |-> None, idx |-> 0, ph |-> FALSE]]
IdleThread == [pc |-> "idle", h |-> None, record |-> NoRecord, result |-> <<>>, pre |-> <<>>]

\* no direct call made yet: per handler the records emitted and returned,
\* the latest call completed and the latest flush completed
NoFlush == [done |-> FALSE, pre |-> <<>>, result |-> <<>>, post |-> <<>>, again |-> FALSE]
NoHist == [emits    |-> 0,
           flushes  |-> 0,
           emitted  |-> [h \in HandlerNames |-> <<>>],
           returned |-> [h \in HandlerNames |-> <<>>],
           prev     |-> [h \in HandlerNames |-> None],
           flush    |-> [h \in HandlerNames |-> NoFlush]]

\* no registration call made after FlaskProfiler(app)
NoWire == [mode |-> "direct", inited |-> TRUE, raised |-> FALSE, adds |-> 0]

\* Flask runs the before_request functions in the order of registration and
\* the after_request functions in the reverse order of registration
BeforeOrder == app.before_request_funcs
AfterOrder == Reversed(app.after_request_funcs)

\* the state after FlaskProfiler(app) with app.config among configs
Start(configs, inputs) ==
    /\ config \in configs
    /\ LET W == FlaskProfiler("app", config)
       IN /\ fp = W.fp
          /\ app = W.app
          /\ logger = W.logger
    /\ buffer = [h \in HandlerNames |-> <<>>]
    /\ req = [s \in Slots |-> Idle]
    /\ nextRid = 0
    /\ overlapped = FALSE
    /\ last = NoCall
    /\ stats \in inputs
    /\ func_calls = <<>>
    /\ dropped = {}
    /\ lock = [h \in HandlerNames |-> None]
    /\ thr = [t \in Threads |-> IdleThread]
    /\ hist = NoHist
    /\ wire = NoWire

Init == Start(Configs, {<<>>})

\* the configurations run with concurrent requests: one adapter feeding one
\* injector
ConcConfigs ==
    {cfg \in Configs :
        /\ cfg.PROFILE_FUNCTION # cfg.PROFILE_SQLALCHEMY
        /\ (cfg.PROFILE_HTML_PLACEHOLDER # None) # (cfg.PROFILE_JSONIFY_KEY # None)}
InitConc == Start(ConcConfigs, {<<>>})

wiring == <<config, fp, app, logger>>
formatter == <<stats, func_calls>>
aux == <<lock, thr, hist, wire>>
rest == <<dropped, lock, thr, hist, wire>>

(***************************************************************************)
(* The request pipeline: one action per step of one request                *)
(***************************************************************************)
\* a request arrives in slot s; at most max requests arrive in a run
BeginRequest(s, max) ==
    /\ ~InFlight(req[s])
    /\ nextRid < max
    /\ nextRid' = nextRid + 1
    /\ req' = [req EXCEPT ![s] = [Idle EXCEPT !.pc = "before", !.rid = nextRid + 1]]
    /\ overlapped' = (overlapped \/ \E t \in Slots \ {s} : InFlight(req[t]))
    /\ last' = NoCall
    /\ UNCHANGED <<wiring, buffer, formatter, rest>>

\* before_request hook of the function adapter
enable_function_profiler(s) ==
    /\ req[s].pc = "before"
    /\ req[s].i <= Len(BeforeOrder)
    /\ BeforeOrder[req[s].i] = "enable_function_profiler"
    /\ req' = [req EXCEPT ![s].g = "Profile", ![s].i = @ + 1]
    /\ UNCHANGED <<wiring, buffer, nextRid, overlapped, last, formatter, rest>>

\* the view runs and returns a response; the profiler, if enabled, has
\* collected the request's profile and the ORM its debug queries, whose
\* statements may hold the placeholder comment (tainted)
View(s, responses) ==
    /\ req[s].pc = "before"
    /\ req[s].i = Len(BeforeOrder) + 1
    /\ \E resp \in responses, profile \in RequestProfiles, queries \in 0..MaxQueries,
          tainted \in BOOLEAN :
          /\ req[s].g = None => profile = <<>>
          /\ tainted => queries > 0
          /\ req' = [req EXCEPT ![s].pc = IF AfterOrder = <<>> THEN "sent" ELSE "after",
                                ![s].i = 1, ![s].k = 0,
                                ![s].resp = resp,
                                ![s].profile = profile,
                                ![s].queries = queries,
                                ![s].tainted = tainted]
    /\ UNCHANGED <<wiring, buffer, nextRid, overlapped, last, formatter, rest>>

AtHook(s, hook) ==
    /\ req[s].pc = "after"
    /\ req[s].i <= Len(AfterOrder)
    /\ AfterOrder[req[s].i] = hook

\* the request context after the current after-request function returned
Returned(r) ==
    [r EXCEPT !.i = @ + 1, !.k = 0,
              !.pc = IF r.i = Len(AfterOrder) THEN "sent" ELSE "after"]

\* one logger.info call of an adapter's after-request hook that makes
\* total calls; the hook returns resp unchanged after the last one
AdapterLog(s, hook, total) ==
    LET r      == req[s]
        name   == LoggerOfHook(hook)
        \* the lines after the two summary lines of the ORM adapter quote
        \* the statement of a query
        ph     == hook = "profile_sqlalchemy_queries" /\ r.k + 1 > 2 /\ r.tainted
        record == Record(name, r.rid, hook, r.k + 1, ph)
        r1     == [r EXCEPT !.k = @ + 1, !.emitted = Append(@, record)]
    IN /\ buffer' = logger_info(buffer, logger[name], record)
       /\ req' = [req EXCEPT ![s] = IF r.k + 1 = total THEN Returned(r1) ELSE r1]

\* variant: a request context without g.flask_profiler_function is tolerated
disable_function_profiler_tolerant(s) ==
    /\ AtHook(s, "disable_function_profiler")
    /\ AdapterLog(s, "disable_function_profiler",
                  1 + Len(get_func_calls_from_stats(req[s].profile)))
    /\ UNCHANGED <<wiring, nextRid, overlapped, last, formatter, rest>>

\* after_request hook of the function adapter: the header line, then one
\* line per entry of get_func_calls_from_stats; fails without g.flask_profiler_function
disable_function_profiler(s) ==
    /\ AtHook(s, "disable_function_profiler")
    /\ IF req[s].g = None
       THEN /\ req' = [req EXCEPT ![s].pc = "failed"]
            /\ UNCHANGED buffer
       ELSE AdapterLog(s, "disable_function_profiler",
                       1 + Len(get_func_calls_from_stats(req[s].profile)))
    /\ UNCHANGED <<wiring, nextRid, overlapped, last, formatter, rest>>

\* after_request hook of the ORM adapter: two summary lines, then one line
\* per query
profile_sqlalchemy_queries(s) ==
    /\ AtHook(s, "profile_sqlalchemy_queries")
    /\ AdapterLog(s, "profile_sqlalchemy_queries", 2 + req[s].queries)
    /\ UNCHANGED <<wiring, nextRid, overlapped, last, formatter, rest>>

\* the messages in a string
MsgsIn(str) == {str[i].lines[1] : i \in {j \in 1..Len(str) : str[j].t = "text"}}

\* the messages of the records that a hook took out of the buffer buf and
\* that are not in the body it returned
Discarded(buf, out) ==
    LET gone == {buf[i].msg : i \in 1..Len(buf)} \ {out.buffer[i].msg : i \in 1..Len(out.buffer)}
        body == out.resp.data
        kept == IF body.kind = "json"
                THEN UNION {UNION {MsgsIn(body.doc.val[k][i]) : i \in 1..Len(body.doc.val[k])} :
                               k \in body.doc.keys}
                ELSE MsgsIn(body.toks)
    IN gone \ kept

\* an injector's after-request hook ran with outcome out; twice: it is the
\* second run in a row of the same hook on the same response
Injected(s, hook, out) ==
    /\ buffer' = [buffer EXCEPT ![HandlerOfHook(hook)] = out.buffer]
    /\ req' = [req EXCEPT ![s] = IF out.raised
                                 THEN [req[s] EXCEPT !.pc = "failed"]
                                 ELSE [Returned(req[s]) EXCEPT !.resp = out.resp]]
    /\ last' = [hook |-> hook, rid |-> req[s].rid,
                before |-> req[s].resp, after |-> out.resp,
                buf_before |-> buffer[HandlerOfHook(hook)],
                buf_after |-> out.buffer, raised |-> out.raised,
                twice |-> /\ req[s].i > 1
                          /\ AfterOrder[req[s].i - 1] = hook
                          /\ last.hook = hook
                          /\ last.rid = req[s].rid
                          /\ ~last.raised
                          /\ last.after = req[s].resp]
    /\ dropped' = dropped \cup Discarded(buffer[HandlerOfHook(hook)], out)

RenderLogsToHtmlBody(s) ==
    /\ AtHook(s, "render_logs_to_html_body")
    /\ Injected(s, "render_logs_to_html_body",
                render_logs_to_html_body(req[s].resp, buffer["html"],
                                         config.PROFILE_HTML_PLACEHOLDER))
    /\ UNCHANGED <<wiring, nextRid, overlapped, formatter, aux>>

MergeIntoJsonifiedOutput(s) ==
    /\ AtHook(s, "merge_into_jsonified_output")
    /\ Injected(s, "merge_into_jsonified_output",
                merge_into_jsonified_output(req[s].resp, buffer["json"],
                                            config.PROFILE_JSONIFY_KEY))
    /\ UNCHANGED <<wiring, nextRid, overlapped, formatter, aux>>

Step(s, max, responses) ==
    \/ BeginRequest(s, max)
    \/ enable_function_profiler(s)
    \/ View(s, responses)
    \/ disable_function_profiler(s)
    \/ profile_sqlalchemy_queries(s)
    \/ RenderLogsToHtmlBody(s)
    \/ MergeIntoJsonifiedOutput(s)

\* requests processed strictly one after another
Next == Step("A", MaxReq, Responses)
Spec == Init /\ [][Next]_vars

\* a before_request function that the application registered before it
\* constructed FlaskProfiler(app) returns a response: the framework skips
\* the remaining before_request functions and the view, and runs the
\* after_request functions on that response
ShortCircuit(s, responses) ==
    /\ req[s].pc = "before"
    /\ req[s].i = 1
    /\ \E resp \in responses :
          req' = [req EXCEPT ![s].pc = IF AfterOrder = <<>> THEN "sent" ELSE "after",
                             ![s].i = 1, ![s].k = 0,
                             ![s].resp = resp]
    /\ UNCHANGED <<wiring, buffer, nextRid, overlapped, last, formatter, rest>>

\* requests one after another, some answered by a before_request function
\* of the application
NextShort == Step("A", MaxReq, Responses) \/ ShortCircuit("A", Responses)
SpecShort == Init /\ [][NextShort]_vars

\* one request more, under the configurations with both injectors
CarryConfigs ==
    {cfg \in Configs :
        cfg.PROFILE_HTML_PLACEHOLDER # None /\ cfg.PROFILE_JSONIFY_KEY # None}
CarryResponses ==
    { Response(200, HtmlCT, RawBody(OnePlaceholder)),
      Response(200, HtmlCT, RawBody(NoPlaceholder)),
      Response(200, JsonCT, JsonBody(ResultDoc, "pretty")) }
InitCarry == Start(CarryConfigs, {<<>>})
NextCarry == Step("A", MaxReq + 1, CarryResponses)
SpecCarry == InitCarry /\ [][NextCarry]_vars

\* two requests, one per slot, processed concurrently
NextConc == \E s \in Slots : Step(s, Cardinality(Slots), ConcResponses)
SpecConc == InitConc /\ [][NextConc]_vars

(***************************************************************************)
(* Runs of the call-statistics formatter on its own                        *)
(***************************************************************************)
Infos == (0..MaxCount) \X (0..MaxCount) \X (0..MaxTime) \X (0..MaxTime)
StatsInputs == UNION {[1..n -> Infos] : n \in 0..MaxStats}
DefaultConfig ==
    [PROFILE_FUNCTION |-> FALSE, PROFILE_SQLALCHEMY |-> FALSE,
     PROFILE_HTML_PLACEHOLDER |-> None, PROFILE_JSONIFY_KEY |-> None]

InitStats == Start({DefaultConfig}, StatsInputs)

FormatStats ==
    /\ func_calls' = get_func_calls_from_stats(stats)
    /\ UNCHANGED <<wiring, buffer, req, nextRid, overlapped, last, stats, rest>>

NextStats == FormatStats
SpecStats == InitStats /\ [][NextStats]_vars

(***************************************************************************)
(* Registration calls made by the application after construction, in       *)
(* either mode: FlaskProfiler(app), or FlaskProfiler() followed by         *)
(* init_app(app)                                                           *)
(***************************************************************************)
Profilers == {profile_function, profile_sqlalchemy}
LogHandlers == {html_body_log_handler, jsonify_log_handler}

\* the part of the state the registration methods work on
World == [fp |-> fp, app |-> app, logger |-> logger, raised |-> wire.raised]

InitWire ==
    /\ config \in Configs
    /\ \E mode \in {"direct", "deferred"} :
          LET W == FlaskProfiler(IF mode = "direct" THEN "app" ELSE None, config)
          IN /\ fp = W.fp
             /\ app = W.app
             /\ logger = W.logger
             /\ wire = [mode |-> mode, inited |-> (mode = "direct"),
                        raised |-> W.raised, adds |-> 0]
    /\ buffer = [h \in HandlerNames |-> <<>>]
    /\ req = [s \in Slots |-> Idle]
    /\ nextRid = 0
    /\ overlapped = FALSE
    /\ last = NoCall
    /\ stats = <<>>
    /\ func_calls = <<>>
    /\ dropped = {}
    /\ lock = [h \in HandlerNames |-> None]
    /\ thr = [t \in Threads |-> IdleThread]
    /\ hist = NoHist

\* a registration call ended in the state W
Registered(W, byCaller) ==
    /\ fp' = W.fp
    /\ app' = W.app
    /\ logger' = W.logger
    /\ wire' = [wire EXCEPT !.raised = W.raised,
                            !.inited = IF byCaller THEN @ ELSE TRUE,
                            !.adds = IF byCaller THEN @ + 1 ELSE @]
    /\ UNCHANGED <<config, buffer, req, nextRid, overlapped, last, formatter,
                   dropped, lock, thr, hist>>

\* profiler.init_app(app) on a FlaskProfiler() constructed without app
InitApp ==
    /\ wire.mode = "deferred"
    /\ ~wire.inited
    /\ ~wire.raised
    /\ Registered(init_app(World, config), FALSE)

\* the application registers one more adapter
AddProfiler(profiler) ==
    /\ ~wire.raised
    /\ \A i \in 1..Len(fp.profilers) : fp.profilers[i] # profiler
    /\ Registered(add_profiler(World, profiler), TRUE)

\* the application registers one more log handler
AddLogHandler(handler) ==
    /\ ~wire.raised
    /\ \A i \in 1..Len(fp.log_handlers) : fp.log_handlers[i] # handler
    /\ Registered(add_log_handler(World, handler), TRUE)

NextWire ==
    \/ InitApp
    \/ \E profiler \in Profilers : AddProfiler(profiler)
    \/ \E handler \in LogHandlers : AddLogHandler(handler)
SpecWire == InitWire /\ [][NextWire]_vars

(***************************************************************************)
(* The handlers on their own: threads call handler.handle(record) (what    *)
(* a logger does with a record) and handler.flush() directly.  Both take   *)
(* the handler's lock: Handler.handle around emit, flush by                *)
(* self.acquire() ... finally: self.release().                             *)
(***************************************************************************)
BothInjectors ==
    [DefaultConfig EXCEPT !.PROFILE_HTML_PLACEHOLDER = Placeholder,
                          !.PROFILE_JSONIFY_KEY = JsonifyKey]
InitBuf == Start({BothInjectors}, {<<>>})

pipeline == <<wiring, req, nextRid, overlapped, last, formatter, dropped, wire>>

\* variant: the lock is taken without waiting for its holder
acquire_unlocked(lk, t) == TRUE

\* self.acquire(): the lock is free, or held by the calling thread (RLock)
acquire(lk, t) == lk = None \/ lk = t

\* flush() of the handler h
flush(h, buf) ==
    IF h = "html" THEN HTMLBodyLogHandler_flush(buf) ELSE JSONifyLogHandler_flush(buf)

\* the messages of the formatted records in the result of flush()
TextsOf(h, result) ==
    LET str   == IF h = "json" THEN Flatten(result) ELSE result
        texts == SelectSeq(str, LAMBDA u : u.t = "text")
    IN [i \in 1..Len(texts) |-> texts[i].lines[1]]

\* thread t calls handler.handle(record) and reaches self.acquire()
HandleCall(t, h) ==
    /\ thr[t].pc = "idle"
    /\ hist.emits < MaxEmits
    /\ thr' = [thr EXCEPT ![t] = [IdleThread EXCEPT
                  !.pc = "handle_wait", !.h = h,
                  !.record = Record("direct", 0, t, hist.emits + 1, FALSE)]]
    /\ hist' = [hist EXCEPT !.emits = @ + 1]
    /\ UNCHANGED <<pipeline, buffer, lock>>

\* thread t calls handler.flush() and reaches self.acquire()
FlushCall(t, h) ==
    /\ thr[t].pc = "idle"
    /\ hist.flushes < MaxFlushes
    /\ thr' = [thr EXCEPT ![t] = [IdleThread EXCEPT !.pc = "flush_wait", !.h = h]]
    /\ hist' = [hist EXCEPT !.flushes = @ + 1]
    /\ UNCHANGED <<pipeline, buffer, lock>>

\* self.acquire() returns
Acquire(t) ==
    /\ thr[t].pc \in {"handle_wait", "flush_wait"}
    /\ acquire(lock[thr[t].h], t)
    /\ lock' = [lock EXCEPT ![thr[t].h] = t]
    /\ thr' = [thr EXCEPT ![t].pc = IF @ = "handle_wait" THEN "handle" ELSE "flush"]
    /\ UNCHANGED <<pipeline, buffer, hist>>

\* BufferingHandler.emit(record) under the lock
HandleEmit(t) ==
    /\ thr[t].pc = "handle"
    /\ buffer' = [buffer EXCEPT ![thr[t].h] = emit(@, thr[t].record)]
    /\ thr' = [thr EXCEPT ![t].pc = "handled"]
    /\ hist' = [hist EXCEPT !.emitted[thr[t].h] = Append(@, thr[t].record.msg)]
    /\ UNCHANGED <<pipeline, lock>>

\* self.release() at the end of Handler.handle
HandleRelease(t) ==
    /\ thr[t].pc = "handled"
    /\ lock' = [lock EXCEPT ![thr[t].h] = None]
    /\ hist' = [hist EXCEPT !.prev[thr[t].h] = "emit"]
    /\ thr' = [thr EXCEPT ![t] = IdleThread]
    /\ UNCHANGED <<pipeline, buffer>>

\* flush(): the records of self.buffer are formatted
FlushFormat(t) ==
    /\ thr[t].pc = "flush"
    /\ thr' = [thr EXCEPT ![t].pc = "formatted",
                          ![t].pre = buffer[thr[t].h],
                          ![t].result = flush(thr[t].h, buffer[thr[t].h]).result]
    /\ UNCHANGED <<pipeline, buffer, lock, hist>>

\* flush(): self.buffer = []
FlushClear(t) ==
    /\ thr[t].pc = "formatted"
    /\ buffer' = [buffer EXCEPT ![thr[t].h] = flush(thr[t].h, @).buffer]
    /\ thr' = [thr EXCEPT ![t].pc = "cleared"]
    /\ UNCHANGED <<pipeline, lock, hist>>

\* flush(): self.release() in the finally clause, and the result is returned
FlushRelease(t) ==
    /\ thr[t].pc = "cleared"
    /\ lock' = [lock EXCEPT ![thr[t].h] = None]
    /\ hist' = [hist EXCEPT
                  !.returned[thr[t].h] = @ \o TextsOf(thr[t].h, thr[t].result),
                  !.prev[thr[t].h] = "flush",
                  !.flush[thr[t].h] = [done |-> TRUE, pre |-> thr[t].pre,
                                       result |-> thr[t].result,
                                       post |-> buffer[thr[t].h],
                                       again |-> (hist.prev[thr[t].h] = "flush")]]
    /\ thr' = [thr EXCEPT ![t] = IdleThread]
    /\ UNCHANGED <<pipeline, buffer>>

NextBuf ==
    \E t \in Threads :
       \/ \E h \in HandlerNames : HandleCall(t, h)
       \/ \E h \in HandlerNames : FlushCall(t, h)
       \/ Acquire(t)
       \/ HandleEmit(t)
       \/ HandleRelease(t)
       \/ FlushFormat(t)
       \/ FlushClear(t)
       \/ FlushRelease(t)
SpecBuf == InitBuf /\ [][NextBuf]_vars

TypeOK ==
    /\ config \in Configs
    /\ nextRid \in 0..(MaxReq + Cardinality(Slots))
    /\ \A s \in Slots : req[s].pc \in {"idle", "before", "after", "sent", "failed"}
    /\ \A h \in HandlerNames : lock[h] \in Threads \cup {None}
    /\ \A t \in Threads :
          /\ thr[t].pc \in {"idle", "handle_wait", "handle", "handled",
                             "flush_wait", "flush", "formatted", "cleared"}
          /\ thr[t].h \in HandlerNames \cup {None}
    /\ hist.emits \in 0..MaxEmits
    /\ hist.flushes \in 0..MaxFlushes
    /\ wire.mode \in {"direct", "deferred"}
    /\ wire.adds \in 0..(Cardinality(Profilers) + Cardinality(LogHandlers))

(***************************************************************************)
(* Properties                                                              *)
(***************************************************************************)
\* the target shapes, read off the response
IsHtml200(resp) ==
    resp.status_code = 200 /\ resp.content_type # <<>> /\ resp.content_type[1] = "text/html"
IsJson200(resp) ==
    resp.status_code = 200 /\ resp.content_type # <<>>
    /\ resp.content_type[1] = "application/json"

\* the lines of a sequence of records
LinesOf(records) == [i \in 1..Len(records) |-> Format(records[i])]

\* the block rendered from a buffer: <div ...>, <p>line</p> per record, </div>
BlockOf(records) ==
    <<DivOpen>>
    \o Flatten([i \in 1..Len(records) |-> <<POpen>> \o LinesOf(records)[i] \o <<PClose>>])
    \o <<DivClose>>

\* a string with every unit old replaced by the string new
Substituted(str, old, new) ==
    Flatten([i \in 1..Len(str) |-> IF str[i] = old THEN new ELSE <<str[i]>>])

\* the records of request context r that reached handler h, in emission order
RECURSIVE Reaching(_, _)
Reaching(records, h) ==
    IF records = <<>> THEN <<>>
    ELSE (IF \E i \in 1..Len(logger[Head(records).name]) :
                logger[Head(records).name][i] = h
          THEN <<Head(records)>> ELSE <<>>) \o Reaching(Tail(records), h)

\* the log lines found in a response body
SplicedLines(resp) ==
    IF resp.data.kind = "json"
    THEN {l \in UNION {UNION {MsgsIn(resp.data.doc.val[k][i]) :
                                 i \in 1..Len(resp.data.doc.val[k])} :
                          k \in resp.data.doc.keys} : l.rid # 0}
    ELSE MsgsIn(resp.data.toks)

HtmlCall == last.hook = "render_logs_to_html_body"
JsonCall == last.hook = "merge_into_jsonified_output"

\* the HTML injector was called on a response it rewrites whose body holds the comment
HtmlSpliced ==
    /\ HtmlCall /\ IsHtml200(last.before)
    /\ \E i \in 1..Len(Decode(last.before.data.toks)) :
          Decode(last.before.data.toks)[i] = Comment(Placeholder)

\* the JSON injector was called on a response whose body is a mapping without the key
JsonMergeable ==
    /\ JsonCall /\ IsJson200(last.before)
    /\ last.before.data.kind = "json"
    /\ last.before.data.doc.kind = "dict"
    /\ JsonifyKey \notin last.before.data.doc.keys

\* the JSON injector was called on a response whose body is JSON but not a
\* mapping, or a mapping that holds the key
JsonOccupied ==
    /\ JsonCall /\ IsJson200(last.before)
    /\ last.before.data.kind = "json"
    /\ \/ last.before.data.doc.kind # "dict"
       \/ JsonifyKey \in last.before.data.doc.keys

\* C1 (as claimed): with requests processed one after another, what an
\* injector splices into a response is exactly what the request itself
\* emitted on the attached channels, and no line of another request is in
\* the response.
C1_OwnRecordsOnly ==
    ~overlapped =>
      \A s \in Slots :
        (req[s].pc = "sent" /\ last.rid = req[s].rid) =>
          /\ \A l \in SplicedLines(req[s].resp) : l.rid = req[s].rid
          /\ HtmlSpliced =>
               Decode(last.after.data.toks)
                  = Substituted(Decode(last.before.data.toks), Comment(Placeholder),
                                BlockOf(Reaching(req[s].emitted, "html")))
          /\ JsonMergeable =>
               last.after.data.doc.val[JsonifyKey]
                  = LinesOf(Reaching(req[s].emitted, "json"))

\* C2 (as claimed): when two requests overlap, each response holds only
\* lines of its own request.
C2_DistinctBuffers ==
    overlapped =>
      \A s \in Slots : \A l \in SplicedLines(req[s].resp) : l.rid = req[s].rid

\* C3: an injector call that returns leaves Content-Length equal to the byte
\* length of the body if it was equal before the call.
C3_ContentLengthConsistent ==
    (last.hook \in InjectorHooks /\ ~last.raised
        /\ last.before.content_length = ByteLen(last.before.data))
    => last.after.content_length = ByteLen(last.after.data)

\* C3 witness: an injector rewrote a body to one of a different byte length
C3_Witness ==
    /\ last.hook \in InjectorHooks /\ ~last.raised
    /\ last.before.content_length = ByteLen(last.before.data)
    /\ ByteLen(last.after.data) # ByteLen(last.before.data)
    /\ last.buf_before # <<>>

\* C4 (as claimed): only the first occurrence of the comment is replaced, the
\* output holds exactly one rendered block and later occurrences stay.
C4_FirstOccurrenceOnly ==
    HtmlSpliced =>
      LET in    == Decode(last.before.data.toks)
          out   == Decode(last.after.data.toks)
          first == CHOOSE i \in 1..Len(in) :
                      /\ in[i] = Comment(Placeholder)
                      /\ \A j \in 1..(i - 1) : in[j] # Comment(Placeholder)
      IN /\ out = SubSeq(in, 1, first - 1) \o BlockOf(last.buf_before)
                    \o SubSeq(in, first + 1, Len(in))
         /\ Cardinality({i \in 1..Len(out) : out[i] = DivOpen})
               = Cardinality({i \in 1..Len(in) : in[i] = DivOpen}) + 1

\* C4 (amended): on a 200 text/html response every occurrence of the comment
\* in the body is replaced by the rendered block of the buffered records in
\* emission order and the rest of the body is kept, so one block is added
\* per occurrence (exactly one when the comment occurs once).
C4_EveryOccurrenceReplaced ==
    (HtmlCall /\ IsHtml200(last.before)) =>
      LET in  == Decode(last.before.data.toks)
          out == Decode(last.after.data.toks)
          n   == Cardinality({i \in 1..Len(in) : in[i] = Comment(Placeholder)})
      IN /\ out = Substituted(in, Comment(Placeholder), BlockOf(last.buf_before))
         /\ Cardinality({i \in 1..Len(out) : out[i] = DivOpen})
               = Cardinality({i \in 1..Len(in) : in[i] = DivOpen}) + n
         /\ Len(out) = Len(in) + n * (Len(BlockOf(last.buf_before)) - 1)

\* C4 witness: two buffered records, a body with the comment twice
C4_Witness ==
    /\ HtmlSpliced
    /\ Len(last.buf_before) >= 2
    /\ Cardinality({i \in 1..Len(last.before.data.toks) :
                       last.before.data.toks[i] = Comment(Placeholder)}) = 2

\* C5: on a 200 application/json response whose body is a mapping without
\* the key, the output mapping is the input mapping plus the key, mapped to
\* the buffered lines in emission order, and the buffer is empty afterwards.
C5_KeyInserted ==
    JsonMergeable =>
      /\ ~last.raised
      /\ last.after.data.kind = "json"
      /\ last.after.data.doc.kind = "dict"
      /\ last.after.data.doc.keys = last.before.data.doc.keys \cup {JsonifyKey}
      /\ last.after.data.doc.val[JsonifyKey] = LinesOf(last.buf_before)
      /\ \A k \in last.before.data.doc.keys :
            last.after.data.doc.val[k] = last.before.data.doc.val[k]
      /\ last.buf_after = <<>>

\* C5 witness: a mapping with another key, a buffer of two records
C5_Witness ==
    /\ JsonMergeable
    /\ last.before.data.doc.keys # {}
    /\ Len(last.buf_before) >= 2

\* C6 (as claimed): when the body is not a mapping or holds the key, the JSON
\* content is unchanged and the buffer is empty after the hook.
C6_DrainedWhenOccupied ==
    JsonOccupied =>
      /\ last.after.data.doc = last.before.data.doc
      /\ last.buf_after = <<>>

\* C7: an injector called on a response that is not of its target shape
\* returns it unchanged.
C7_NoOpOffTarget ==
    /\ (HtmlCall /\ ~IsHtml200(last.before)) => (~last.raised /\ last.after = last.before)
    /\ (JsonCall /\ ~IsJson200(last.before)) => (~last.raised /\ last.after = last.before)

\* C7 witness: the JSON injector was called on a 404 application/json response
C7_Witness ==
    /\ JsonCall
    /\ last.before.status_code = 404
    /\ last.before.content_type = JsonCT
    /\ last.buf_before # <<>>

\* C8 (as claimed): when an injector's after-request hook is about to run,
\* every adapter logging to a channel its handler is attached to has already
\* run its after-request hook for this request.
C8_InjectorsAfterAdapters ==
    \A s \in Slots : \A h \in InjectorHooks :
       AtHook(s, h) =>
          \A j \in 1..Len(app.after_request_funcs) :
             LET a == app.after_request_funcs[j]
             IN (/\ a \in AdapterHooks
                 /\ \E i \in 1..Len(logger[LoggerOfHook(a)]) :
                       logger[LoggerOfHook(a)][i] = HandlerOfHook(h))
                => \E i \in 1..Len(req[s].emitted) : req[s].emitted[i].msg.src = a

\* C9 (as claimed): ncalls is "P/T", primitive count first, when the counts
\* differ and the bare total otherwise.
C9_PrimitiveSlashTotal ==
    \A i \in 1..Len(func_calls) :
       LET P == stats[i][1]
           T == stats[i][2]
       IN func_calls[i].ncalls = IF P # T THEN FormatSlash(P, T) ELSE BareInt(T)

\* C9 (amended): ncalls is "T/P", total count first and primitive count
\* second, when the counts differ and the bare total T otherwise.
C9_TotalSlashPrimitive ==
    \A i \in 1..Len(func_calls) :
       LET P == stats[i][1]
           T == stats[i][2]
       IN func_calls[i].ncalls = IF P # T THEN FormatSlash(T, P) ELSE BareInt(T)

\* C9 witness: a formatted record with 1 primitive and 2 total calls
C9_Witness ==
    \E i \in 1..Len(func_calls) :
       stats[i][1] = 1 /\ stats[i][2] = 2 /\ func_calls[i].ncalls.kind = "str"

\* C10 (as claimed): percall is tottime over the primitive-call count, 0 when
\* that count is 0; percall_cum is cumtime over the total-call count, 0 when
\* that count is 0; no division error.
C10_GuardsAsClaimed ==
    \A i \in 1..Len(func_calls) :
       LET P == stats[i][1]
           T == stats[i][2]
           c == func_calls[i]
       IN /\ c.percall = IF P = 0 THEN Zero ELSE Div(c.tottime, P)
          /\ c.percall_cum = IF T = 0 THEN Zero ELSE Div(c.cumtime, T)
          /\ c.percall # ZeroDivisionError /\ c.percall_cum # ZeroDivisionError

\* C10 (amended): percall is tottime over the total-call count, 0 when that
\* count is 0; percall_cum is cumtime over the primitive-call count, 0 when
\* that count is 0; no input causes a division error.
C10_GuardsMatchDivisors ==
    \A i \in 1..Len(func_calls) :
       LET P == stats[i][1]
           T == stats[i][2]
           c == func_calls[i]
       IN /\ c.tottime = stats[i][3] * 1000
          /\ c.cumtime = stats[i][4] * 1000
          /\ c.percall = IF T = 0 THEN Zero ELSE Div(c.tottime, T)
          /\ c.percall_cum = IF P = 0 THEN Zero ELSE Div(c.cumtime, P)
          /\ c.percall # ZeroDivisionError /\ c.percall_cum # ZeroDivisionError

\* C10 witness: a formatted record with no primitive call, two total calls
\* and non-zero times
C10_Witness ==
    \E i \in 1..Len(func_calls) :
       /\ stats[i][1] = 0 /\ stats[i][2] = 2 /\ stats[i][3] = 1 /\ stats[i][4] = 1
       /\ func_calls[i].percall = [num |-> 500, den |-> 1]
       /\ func_calls[i].percall_cum = Zero


\* what flush() of handler h returns for a buffer holding records, and for
\* an empty buffer
Rendered(h, records) == IF h = "html" THEN BlockOf(records) ELSE LinesOf(records)
EmptyResult(h) == IF h = "html" THEN <<DivOpen, DivClose>> ELSE <<>>

\* C11: for both handlers and every sequence of emits and flushes, a flush
\* returns every buffered record, formatted, in emission order and leaves the
\* buffer empty; on an empty buffer it returns the empty result (the empty
\* list, the <div> without <p> lines); a flush that follows a flush with no
\* emit in between returns the empty result.
C11_FlushDrains ==
    \A h \in HandlerNames :
       hist.flush[h].done =>
          /\ hist.flush[h].result = Rendered(h, hist.flush[h].pre)
          /\ TextsOf(h, hist.flush[h].result)
                = [i \in 1..Len(hist.flush[h].pre) |-> hist.flush[h].pre[i].msg]
          /\ hist.flush[h].post = <<>>
          /\ hist.flush[h].pre = <<>> => hist.flush[h].result = EmptyResult(h)
          /\ hist.flush[h].again => hist.flush[h].result = EmptyResult(h)

\* C11 witness: a flush of the HTML handler returned two records and the
\* next call on that handler was a flush again
C11_Witness ==
    /\ hist.flush["html"].done
    /\ hist.flush["html"].again
    /\ Len(hist.returned["html"]) >= 2

\* a flush of handler h is in progress
InFlush(h) ==
    \E t \in Threads : thr[t].h = h /\ thr[t].pc \in {"flush", "formatted", "cleared"}

\* how many times x occurs in a sequence
Occurrences(seq, x) == Cardinality({i \in 1..Len(seq) : seq[i] = x})

\* C13: under every interleaving of emit and flush calls on a handler, every
\* record emitted on it is, once no flush is in progress, either returned by
\* exactly one flush or still in the buffer, never both, never neither and
\* never returned twice.
C13_FlushAtomic ==
    \A h \in HandlerNames :
       ~InFlush(h) =>
          \A i \in 1..Len(hist.emitted[h]) :
             Occurrences(hist.returned[h], hist.emitted[h][i])
               + Occurrences([j \in 1..Len(buffer[h]) |-> buffer[h][j].msg],
                             hist.emitted[h][i]) = 1

\* C13 witness: a record arrives at a handler while a flush of that handler
\* has formatted a non-empty buffer and not yet cleared it
C13_Witness ==
    \E h \in HandlerNames, t, u \in Threads :
       /\ thr[t].h = h /\ thr[t].pc = "formatted" /\ thr[t].pre # <<>>
       /\ thr[u].h = h /\ thr[u].pc = "handle_wait"

\* C14: a handler never flushes itself: accepting a record appends it to the
\* buffer and does nothing else, and the buffer gets shorter only in the
\* clearing step of an explicit flush() call.
C14_NeverFlushesItself ==
    [][\A h \in HandlerNames :
          /\ Len(buffer'[h]) < Len(buffer[h]) =>
                \E t \in Threads :
                   thr[t].h = h /\ thr[t].pc = "formatted" /\ thr'[t].pc = "cleared"
          /\ \A t \in Threads :
                (thr[t].h = h /\ thr[t].pc = "handle" /\ thr'[t].pc = "handled")
                   => buffer'[h] = Append(buffer[h], thr[t].record)]_vars

\* C14 witness: a handler holds every record of the run and was never flushed
C14_Witness ==
    \E h \in HandlerNames :
       /\ Len(buffer[h]) = MaxEmits
       /\ ~hist.flush[h].done
       /\ hist.flushes = 0


\* C12: the function adapter's after-request hook, run in a request context
\* without g.flask_profiler_function (enable_function_profiler never ran),
\* fails before doing anything else: no record is emitted on its logger, no
\* buffer changes and no response is returned.
C12_EndWithoutStartFails ==
    [][\A s \in Slots :
          (AtHook(s, "disable_function_profiler") /\ req[s].g = None /\ req'[s] # req[s])
             => /\ req'[s].pc = "failed"
                /\ req'[s].emitted = req[s].emitted
                /\ req'[s].resp = req[s].resp
                /\ buffer' = buffer]_vars

\* C12 witness: the hook failed in a request answered before
\* enable_function_profiler ran, with a handler attached to its logger
C12_Witness ==
    \E s \in Slots :
       /\ req[s].pc = "failed"
       /\ req[s].g = None
       /\ AfterOrder[req[s].i] = "disable_function_profiler"
       /\ logger[FunctionLogger] # <<>>
       /\ req[s].emitted = <<>>

\* the body of a 200 text/html response holds no placeholder comment
NoComment(resp) ==
    \A i \in 1..Len(Decode(resp.data.toks)) :
       Decode(resp.data.toks)[i] # Comment(Placeholder)

\* C15 (as claimed): the HTML injector called on a 200 text/html response
\* without the placeholder comment leaves the decoded body unchanged, still
\* flushes, so the buffer is empty after the hook, and the records that were
\* buffered are discarded: they are in no response, this one or a later one.
C15_DiscardedForGood ==
    /\ (HtmlCall /\ IsHtml200(last.before) /\ NoComment(last.before)) =>
          /\ Decode(last.after.data.toks) = Decode(last.before.data.toks)
          /\ last.buf_after = <<>>
          /\ {last.buf_before[i].msg : i \in 1..Len(last.buf_before)} \subseteq dropped
    /\ \A s \in Slots : dropped \cap SplicedLines(req[s].resp) = {}

\* C16 (as claimed): an injector's after-request hook run a second time in a
\* row on the same response, no record emitted in between, returns the body
\* and the Content-Length of the first run.
C16_SecondRunChangesNothing ==
    last.twice =>
      /\ ~last.raised
      /\ last.after.data = last.before.data
      /\ last.after.content_length = last.before.content_length

\* how many times a function is registered as after_request function
HookCount(hook) ==
    Cardinality({i \in 1..Len(app.after_request_funcs) : app.after_request_funcs[i] = hook})

\* C17 (as claimed): whenever an injector is configured its after-request
\* hook is registered exactly once, whatever the number of adapters.
C17_InjectorHookOnce ==
    /\ config.PROFILE_HTML_PLACEHOLDER # None => HookCount("render_logs_to_html_body") = 1
    /\ config.PROFILE_JSONIFY_KEY # None => HookCount("merge_into_jsonified_output") = 1


\* the handlers attached to a logger
Attached(l) == {logger[l][i] : i \in 1..Len(logger[l])}

\* C18 (as claimed): whatever the order of the add_profiler and
\* add_log_handler calls, once they returned every registered log handler is
\* attached to the logger of every registered profiler.
C18_EveryHandlerOnEveryLogger ==
    ~wire.raised =>
       \A i \in 1..Len(fp.log_handlers), j \in 1..Len(fp.profilers) :
          fp.log_handlers[i].handler \in Attached(fp.profilers[j].logger)

\* C19 (as claimed): FlaskProfiler() followed by init_app(app) does not fail
\* and ends with the hooks on app, the profilers, the loggers, the log
\* handlers and their attachment that FlaskProfiler(app) ends with.
C19_DeferredAsDirect ==
    (wire.mode = "deferred" /\ wire.inited /\ wire.adds = 0) =>
       LET D == FlaskProfiler("app", config)
       IN /\ ~wire.raised
          /\ app = D.app
          /\ fp.profilers = D.fp.profilers
          /\ fp.loggers = D.fp.loggers
          /\ fp.log_handlers = D.fp.log_handlers
          /\ logger = D.logger

====
